---- MODULE Spec2Model ----
(***************************************************************************)
(* A model of BTLE_Temp_Server.ino: the one-second / one-hour scheduler of *)
(* loop(), the time string staged by the BLE write callback, the parser    *)
(* setRtcTime, the SPIFFS key lookup (readln / readKey), the clock backup  *)
(* (backupTimeValue) and setup().                                          *)
(*                                                                         *)
(* C strings are sequences of one-character strings; C index i is TLA+     *)
(* index i + 1.  The byte 0 is written NUL.                                *)
(***************************************************************************)
EXTENDS Integers, Sequences, FiniteSets, TLC

VARIABLES
    pc,             \* where the main task is: "boot" (before setup), or a place in loop()
    clock,          \* rtc: the broken-down time the software clock holds
    lastSecond,     \* int lastSecond
    lastHr,         \* int lastHr
    secondCtr,      \* unsigned long secondCtr
    updateRateSec,  \* unsigned long updateRateSec
    sensorIsDHT11,  \* int sensorIsDHT11
    tempIsF,        \* int tempIsF
    setTimeData,    \* char setTimeData[32]
    wr,             \* the onWrite call in progress on the BLE task, or NoWrite
    timeValue,      \* value of dhtTimeCharacteristics
    tempValue,      \* value of dhtTemperatureFahrenheitCharacteristics
    humValue,       \* value of dhtHumidityCharacteristics
    configFile,     \* content of /config.ini in SPIFFS, or NoFile
    backupFile,     \* content of /backup.dat in SPIFFS, or NoFile
    mounted,        \* whether SPIFFS.begin succeeded at this boot
    saved,          \* history: the clock value of the last record backupTimeValue wrote
    pending,        \* history: the values of the onWrite calls completed since the last setRtcTime(setTimeData)
    nSamples,       \* history: sensor samples taken since setup()
    excess,         \* history: backupTimeValue calls that followed neither an hour-edge nor an accepted time string
    last,           \* history: what the most recent step did
    nTicks,         \* clock ticks so far (bounded)
    nWrites,        \* onWrite calls so far (bounded)
    nResets,        \* restarts so far (bounded)
    applied         \* history: nTicks when this iteration of loop() set the clock from a time string, else -1

vars == <<pc, clock, lastSecond, lastHr, secondCtr, updateRateSec, sensorIsDHT11,
          tempIsF, setTimeData, wr, timeValue, tempValue, humValue, configFile,
          backupFile, mounted, saved, pending, nSamples, excess, last, nTicks,
          nWrites, nResets, applied>>

----------------------------------------------------------------------------
(* Bounds of the model *)

MaxTicks == 4
MaxWrites == 2
MaxResets == 1

----------------------------------------------------------------------------
(* Characters and C strings *)

NUL == "NUL"
LF == "\n"
CR == "\r"

Digits == <<"0", "1", "2", "3", "4", "5", "6", "7", "8", "9">>

IsDigit(c) == \E i \in 1..10 : Digits[i] = c

DigitVal(c) == (CHOOSE i \in 1..10 : Digits[i] = c) - 1

\* char setTimeData[32] and char tmpbuf[32]
BufSize == 32

\* strncpy(setTimeData, ..., 31)
CopyMax == 31

Min(a, b) == IF a < b THEN a ELSE b

\* the first 31 characters of a string
Trunc(s) == SubSeq(s, 1, Min(Len(s), CopyMax))

\* strlen: the index of the first NUL
StrLen(buf) ==
    IF \E i \in 1..Len(buf) : buf[i] = NUL
    THEN (CHOOSE i \in 1..Len(buf) : buf[i] = NUL /\ \A j \in 1..(i - 1) : buf[j] # NUL) - 1
    ELSE Len(buf)

\* the C string a buffer holds
CStr(buf) == SubSeq(buf, 1, StrLen(buf))

\* a buffer of n bytes holding string s (shorter than n), the rest NUL
Pad(s, n) == [i \in 1..n |-> IF i <= Len(s) THEN s[i] ELSE NUL]

ZeroBuf == Pad(<<>>, BufSize)

\* a copy that stops at the end of src and pads nothing
StrNCpyNoPad(dst, src, n) ==
    [i \in 1..Len(dst) |-> IF i <= Min(Len(src), n) THEN src[i] ELSE dst[i]]

\* a copy that fills the whole of dst, its last byte included
StrNCpyWholeBuffer(dst, src, n) ==
    [i \in 1..Len(dst) |-> IF i <= Len(src) THEN src[i] ELSE NUL]

\* strncpy(dst, src, n) for a dst of BufSize bytes: exactly n bytes are written,
\* the first Min(strlen(src), n) from src and the rest NUL; byte n and later are kept
StrNCpy(dst, src, n) ==
    [i \in 1..Len(dst) |->
        IF i > n THEN dst[i]
        ELSE IF i <= Len(src) THEN src[i] ELSE NUL]

\* the same strncpy, stopped after its first k bytes
StrNCpyPartial(dst, src, n, k) ==
    [i \in 1..Len(dst) |-> IF i <= k THEN StrNCpy(dst, src, n)[i] ELSE dst[i]]

RECURSIVE Pow10(_)
Pow10(n) == IF n = 0 THEN 1 ELSE 10 * Pow10(n - 1)

\* the decimal digits of n, zero filled to w places (%0wd of strftime)
Dec(n, w) == [i \in 1..w |-> Digits[((n \div Pow10(w - i)) % 10) + 1]]

----------------------------------------------------------------------------
(* The software clock (ESP32Time rtc) *)

Time(y, mo, d, h, mi, s) == [yr |-> y, mo |-> mo, da |-> d, hr |-> h, mn |-> mi, se |-> s]

NoTime == [yr |-> 0, mo |-> 0, da |-> 0, hr |-> 0, mn |-> 0, se |-> 0]

IsLeap(y) == (y % 4 = 0) /\ ((y % 100 # 0) \/ (y % 400 = 0))

DaysIn(mo, y) ==
    IF mo = 2 THEN (IF IsLeap(y) THEN 29 ELSE 28)
    ELSE IF mo \in {4, 6, 9, 11} THEN 30 ELSE 31

\* rtc.setTime(sc, mn, hr, dy, mt, yr): ESP32Time fills a struct tm and calls
\* mktime, which normalises it: a day past the end of the month carries into
\* the next month.  The caller passes dy in 1..31 and mt in 1..12.
RtcSetTime(s, mi, h, d, mo, y) ==
    IF d > DaysIn(mo, y)
    THEN Time(y, mo + 1, d - DaysIn(mo, y), h, mi, s)
    ELSE Time(y, mo, d, h, mi, s)

\* rtc.getSecond()
RtcGetSecond(t) == t.se

\* rtc.getHour(): ESP32Time::getHour(bool mode = false) is called without an
\* argument, which is its 12 hour mode: 1..12
RtcGetHour(t) ==
    IF t.hr > 12 THEN t.hr - 12
    ELSE IF t.hr = 0 THEN 12
    ELSE t.hr

\* rtc.getTime("%Y/%m/%d %H:%M:%S")
RtcGetTime(t) ==
    Dec(t.yr, 4) \o <<"/">> \o Dec(t.mo, 2) \o <<"/">> \o Dec(t.da, 2) \o <<" ">>
    \o Dec(t.hr, 2) \o <<":">> \o Dec(t.mn, 2) \o <<":">> \o Dec(t.se, 2)

\* one second of the oscillator
TickTime(t) ==
    IF t.se < 59 THEN [t EXCEPT !.se = t.se + 1]
    ELSE IF t.mn < 59 THEN [t EXCEPT !.se = 0, !.mn = t.mn + 1]
    ELSE IF t.hr < 23 THEN [t EXCEPT !.se = 0, !.mn = 0, !.hr = t.hr + 1]
    ELSE IF t.da < DaysIn(t.mo, t.yr)
        THEN [t EXCEPT !.se = 0, !.mn = 0, !.hr = 0, !.da = t.da + 1]
    ELSE IF t.mo < 12
        THEN [t EXCEPT !.se = 0, !.mn = 0, !.hr = 0, !.da = 1, !.mo = t.mo + 1]
    ELSE [t EXCEPT !.se = 0, !.mn = 0, !.hr = 0, !.da = 1, !.mo = 1, !.yr = t.yr + 1]

\* rtc.setTime(0,0,0,1,1,2024) of setup()
EpochTime == RtcSetTime(0, 0, 0, 1, 1, 2024)

----------------------------------------------------------------------------
(* getDigits and setRtcTime *)

RECURSIVE DigitsValue(_, _, _)
DigitsValue(p, off, n) ==
    IF n = 0 THEN 0
    ELSE DigitsValue(p, off, n - 1) * 10 + DigitVal(p[off + n])

\* int getDigits(char* p, int nDigits), called with p = &tstring[off]
getDigits(tstring, off, nDigits) ==
    IF \E i \in 1..nDigits : ~IsDigit(tstring[off + i])
    THEN -1
    ELSE DigitsValue(tstring, off, nDigits)

\* the length setRtcTime asks for
TimeStrLen == 19

\* the condition of the if of setRtcTime, after its strlen test
FieldsAccepted(tstring) ==
    LET tyr == getDigits(tstring, 0, 4)
        tmo == getDigits(tstring, 5, 2)
        tda == getDigits(tstring, 8, 2)
        thr == getDigits(tstring, 11, 2)
        tmn == getDigits(tstring, 14, 2)
        tse == getDigits(tstring, 17, 2)
    IN  /\ tyr >= 2024 /\ tyr <= 2100
        /\ tmo >= 1 /\ tmo <= 12
        /\ tda >= 1 /\ tda <= 31
        /\ thr >= 0 /\ thr <= 23
        /\ tmn >= 0 /\ tmn <= 59
        /\ tse >= 0 /\ tse <= 59
        /\ tstring[5] = "/"
        /\ tstring[8] = "/"
        /\ tstring[14] = ":"
        /\ tstring[17] = ":"

\* whether setRtcTime(tstring) sets the clock
Accepts(tstring) ==
    IF StrLen(tstring) < TimeStrLen THEN FALSE ELSE FieldsAccepted(tstring)

\* void setRtcTime(char* tstring): the clock, lastSecond and lastHr after the
\* call, from those before it
setRtcTime(tstring, c, ls, lh) ==
    IF Accepts(tstring)
    THEN [clock |-> RtcSetTime(getDigits(tstring, 17, 2), getDigits(tstring, 14, 2),
                               getDigits(tstring, 11, 2), getDigits(tstring, 8, 2),
                               getDigits(tstring, 5, 2), getDigits(tstring, 0, 4)),
          lastSecond |-> getDigits(tstring, 17, 2),
          lastHr |-> getDigits(tstring, 11, 2),
          ok |-> TRUE]
    ELSE [clock |-> c, lastSecond |-> ls, lastHr |-> lh, ok |-> FALSE]

----------------------------------------------------------------------------
(* SPIFFS files: readln, readKey, atoi, backupTimeValue *)

NoFile == <<"no file">>

\* char buf[128] of readKey, read with readln(finp, buf, 127)
LineMax == 127

\* int readln(File finp, uint8_t* buf, int maxlen), reading file content f from
\* position pos with acc read so far: the line, the position after it, and the
\* value returned (false when the end of the file stopped the read)
RECURSIVE readln(_, _, _, _)
readln(f, pos, acc, maxlen) ==
    IF Len(acc) >= maxlen - 1 THEN [line |-> acc, pos |-> pos, ok |-> TRUE]
    ELSE IF pos > Len(f) THEN [line |-> acc, pos |-> pos, ok |-> FALSE]
    ELSE IF f[pos] = CR THEN readln(f, pos + 1, acc, maxlen)
    ELSE IF f[pos] = LF THEN [line |-> acc, pos |-> pos + 1, ok |-> TRUE]
    ELSE readln(f, pos + 1, Append(acc, f[pos]), maxlen)

\* strncmp(buf, key, n) == 0 with n = strlen(key)
HasPrefix(line, key) ==
    Len(line) >= Len(key) /\ SubSeq(line, 1, Len(key)) = key

\* the while loop of readKey from position pos: the string left in outbuf
RECURSIVE ScanKey(_, _, _, _)
ScanKey(f, pos, key, maxlen) ==
    LET r == readln(f, pos, <<>>, LineMax)
    IN  IF ~r.ok THEN <<>>
        ELSE IF HasPrefix(r.line, key)
            THEN SubSeq(r.line, Len(key) + 1, Min(Len(r.line), Len(key) + maxlen))
        ELSE ScanKey(f, r.pos, key, maxlen)

\* void readKey(char* configFn, char* key, char* outbuf, int maxlen), on the
\* content f of the file named configFn: the string left in outbuf
readKey(f, key, maxlen) ==
    IF f = NoFile THEN <<>> ELSE ScanKey(f, 1, key, maxlen)

\* atoi: white space, an optional sign, then digits up to the first other character
RECURSIVE AtoiDigits(_, _, _)
AtoiDigits(s, i, acc) ==
    IF i > Len(s) \/ ~IsDigit(s[i]) THEN acc
    ELSE AtoiDigits(s, i + 1, acc * 10 + DigitVal(s[i]))

RECURSIVE AtoiFrom(_, _)
AtoiFrom(s, i) ==
    IF i > Len(s) THEN 0
    ELSE IF s[i] = " " THEN AtoiFrom(s, i + 1)
    ELSE IF s[i] = "-" THEN 0 - AtoiDigits(s, i + 1, 0)
    ELSE IF s[i] = "+" THEN AtoiDigits(s, i + 1, 0)
    ELSE AtoiDigits(s, i, 0)

atoi(s) == AtoiFrom(s, 1)

KeySENSOR == <<"S", "E", "N", "S", "O", "R", "=">>
KeyUPDATERATE == <<"U", "P", "D", "A", "T", "E", "R", "A", "T", "E", "=">>
KeyUNITS == <<"U", "N", "I", "T", "S", "=">>
KeyTIME == <<"T", "I", "M", "E", "=">>
DHT11Name == <<"D", "H", "T", "1", "1">>

\* a clamp without its lower bound
ClampRateHighOnly(x) == IF x > 60 THEN 60 ELSE x

\* x = atoi(tmpbuf); if (x < 2) x = 2; if (x > 60) x = 60;
ClampRate(x) == IF x < 2 THEN 2 ELSE IF x > 60 THEN 60 ELSE x

\* updateRateSec = 10 of setup(), kept when SPIFFS does not mount
DefaultRate == 10

\* unsigned long updateRateSec = 5, the value before setup()
StaticRate == 5

\* the record backupTimeValue prints: "TIME=" + rtc.getTime(...), println adds CR LF
BackupRecord(t) == KeyTIME \o RtcGetTime(t) \o <<CR, LF>>

\* a backup that appends its record to the file
backupTimeValueAppend(t, file, opened) ==
    IF ~opened THEN file
    ELSE (IF file = NoFile THEN <<>> ELSE file) \o BackupRecord(t)

\* void backupTimeValue(): the content of /backup.dat after the call; opened is
\* whether SPIFFS.open(BACKUPFN, FILE_WRITE) gave a file
backupTimeValue(t, file, opened) ==
    IF ~opened THEN file ELSE BackupRecord(t)

----------------------------------------------------------------------------
(* unsigned long secondCtr: 32 bits, held as two 16 bit halves, hi * 65536 + lo *)

Half == 65536

CtrZero == [hi |-> 0, lo |-> 0]

\* secondCtr++
CtrInc(c) ==
    IF c.lo < Half - 1 THEN [c EXCEPT !.lo = c.lo + 1]
    ELSE IF c.hi < Half - 1 THEN [hi |-> c.hi + 1, lo |-> 0]
    ELSE CtrZero

\* secondCtr % p
CtrMod(c, p) == (((c.hi % p) * (Half % p)) + (c.lo % p)) % p

\* the value of a counter below 2^31
CtrVal(c) == c.hi * Half + c.lo

----------------------------------------------------------------------------
(* The DHT sensor and the formatted values *)

\* dht.readTemperature / dht.readHumidity give NAN when the read fails
NaN == [t |-> -1, h |-> -1]

\* readings the sensor can give: temperature in tenths of a degree, humidity in percent
Readings == {[t |-> 725, h |-> 40], [t |-> 681, h |-> 55]}

RECURSIVE DecStr(_)
DecStr(n) == IF n < 10 THEN <<Digits[n + 1]>> ELSE Append(DecStr(n \div 10), Digits[(n % 10) + 1])

NanStr == <<"n", "a", "n">>

\* sprintf(tmpbuf, "%.1f", tempF)
FormatTemp(r) == IF r = NaN THEN NanStr ELSE DecStr(r.t \div 10) \o <<".">> \o DecStr(r.t % 10)

\* sprintf(tmpbuf, "%.0f", hum)
FormatHum(r) == IF r = NaN THEN NanStr ELSE DecStr(r.h)

----------------------------------------------------------------------------
(* The inputs of the model *)

Chars(y, mo, d, h, mi, s, a, b, c, e, f) ==
    Dec(y, 4) \o <<a>> \o Dec(mo, 2) \o <<b>> \o Dec(d, 2) \o <<c>>
    \o Dec(h, 2) \o <<e>> \o Dec(mi, 2) \o <<f>> \o Dec(s, 2)

TimeChars(y, mo, d, h, mi, s) == Chars(y, mo, d, h, mi, s, "/", "/", " ", ":", ":")

Xs(n) == [i \in 1..n |-> "X"]

\* values a client writes to the time characteristic
WriteHourEnd == TimeChars(2024, 2, 23, 12, 59, 59)
WriteFeb30 == TimeChars(2024, 2, 30, 23, 59, 59)
WriteLong == Chars(2024, 2, 23, 12, 34, 56, "-", "-", " ", ":", ":") \o Xs(14)

WriteValues == {WriteHourEnd, WriteFeb30, WriteLong}

\* how many bytes strncpy has copied when the main task may next run: the date
\* and the first digit of the hour (a main task that does not run in between
\* sees the copy as one step)
SplitAt == {12}

Line(key, value) == key \o value \o <<LF>>

ConfigRate2 == Line(KeySENSOR, DHT11Name) \o Line(KeyUPDATERATE, <<"2">>)
ConfigNoRate == Line(KeySENSOR, <<"D", "H", "T", "2", "2">>) \o Line(KeyUNITS, <<"C">>)
ConfigRate3 == Line(KeySENSOR, DHT11Name) \o KeyUPDATERATE \o <<"3", CR, LF>>
ConfigRate0 == Line(KeyUPDATERATE, <<"0">>)
ConfigRate100 == Line(KeyUPDATERATE, <<"1", "0", "0">>)
ConfigRateNeg == Line(KeyUPDATERATE, <<"-", "5">>)
ConfigRateText == Line(KeyUPDATERATE, <<"a", "b", "c">>)

\* contents of /config.ini
ConfigFiles == {NoFile, ConfigRate2, ConfigNoRate, ConfigRate3, ConfigRate0, ConfigRate100,
                ConfigRateNeg, ConfigRateText}

\* contents of /backup.dat on a device that has not yet written it
InitialBackups == {NoFile,
                   Line(KeyTIME, <<"j", "u", "n", "k">>),
                   Line(KeyTIME, TimeChars(2023, 12, 31, 23, 59, 59))}

----------------------------------------------------------------------------
(* The state machine *)

NoWrite == [src |-> <<"none">>, k |-> -1]

\* the record of a step: what it was, whether it succeeded, the string it passed
\* to setRtcTime, the writes completed before it, whether the BLE task was idle,
\* and the clock, lastSecond and lastHr before it
Ev(op, ok, arg, pend, idle, was) ==
    [op |-> op, ok |-> ok, arg |-> arg, pend |-> pend, idle |-> idle, was |-> was]

\* a step the history does not describe
NoWas == [clock |-> NoTime, lastSecond |-> -1, lastHr |-> -1]

Quiet == Ev("-", TRUE, <<>>, <<>>, TRUE, NoWas)

\* the clock of a chip just powered on
PowerOnTime == Time(1970, 1, 1, 0, 0, 0)

\* the initialisers of the globals
Statics ==
    /\ lastSecond = -1
    /\ lastHr = -1
    /\ secondCtr = CtrZero
    /\ updateRateSec = StaticRate
    /\ sensorIsDHT11 = TRUE
    /\ tempIsF = TRUE
    /\ setTimeData = ZeroBuf
    /\ timeValue = <<>>
    /\ tempValue = <<>>
    /\ humValue = <<>>

InitOf(configs, backups) ==
    /\ pc = "boot"
    /\ clock = PowerOnTime
    /\ Statics
    /\ wr = NoWrite
    /\ configFile \in configs
    /\ backupFile \in backups
    /\ mounted = FALSE
    /\ saved = NoTime
    /\ pending = <<>>
    /\ nSamples = 0
    /\ excess = 0
    /\ last = Quiet
    /\ nTicks = 0
    /\ nWrites = 0
    /\ nResets = 0
    /\ applied = -1

\* a setup() that keeps the lastSecond and lastHr setRtcTime left
SetupKeepsParsedFields(m) ==
    /\ pc = "boot"
    /\ mounted' = m
    /\ LET sensor == readKey(configFile, KeySENSOR, 15)
           rate == readKey(configFile, KeyUPDATERATE, 15)
           units == readKey(configFile, KeyUNITS, 15)
           tmpbuf == Pad(readKey(backupFile, KeyTIME, 31), BufSize)
           r == IF m THEN setRtcTime(tmpbuf, EpochTime, lastSecond, lastHr)
                ELSE setRtcTime(ZeroBuf, EpochTime, lastSecond, lastHr)
       IN  /\ sensorIsDHT11' = IF m THEN sensor = DHT11Name ELSE TRUE
           /\ updateRateSec' = IF m THEN ClampRate(atoi(rate)) ELSE DefaultRate
           /\ tempIsF' = IF m /\ Len(units) > 0 /\ units[1] \in {"C", "c"} THEN FALSE ELSE TRUE
           /\ clock' = r.clock
           /\ lastSecond' = r.lastSecond
           /\ lastHr' = r.lastHr
           /\ last' = Ev("setup", r.ok, CStr(tmpbuf), <<>>, TRUE, NoWas)
    /\ secondCtr' = CtrZero
    /\ nSamples' = 0
    /\ pc' = "loop"
    /\ UNCHANGED <<setTimeData, wr, timeValue, tempValue, humValue, configFile,
                   backupFile, saved, pending, excess, nTicks, nWrites, nResets, applied>>

\* void setup(), with SPIFFS.begin(true) returning m
Setup(m) ==
    /\ pc = "boot"
    /\ mounted' = m
    /\ LET sensor == readKey(configFile, KeySENSOR, 15)
           rate == readKey(configFile, KeyUPDATERATE, 15)
           units == readKey(configFile, KeyUNITS, 15)
           tmpbuf == Pad(readKey(backupFile, KeyTIME, 31), BufSize)
           r == IF m THEN setRtcTime(tmpbuf, EpochTime, lastSecond, lastHr)
                ELSE setRtcTime(ZeroBuf, EpochTime, lastSecond, lastHr)
       IN  /\ sensorIsDHT11' = IF m THEN sensor = DHT11Name ELSE TRUE
           /\ updateRateSec' = IF m THEN ClampRate(atoi(rate)) ELSE DefaultRate
           /\ tempIsF' = IF m /\ Len(units) > 0 /\ units[1] \in {"C", "c"} THEN FALSE ELSE TRUE
           /\ clock' = r.clock
           /\ lastSecond' = RtcGetSecond(r.clock)
           /\ lastHr' = RtcGetHour(r.clock)
           /\ last' = Ev("setup", r.ok, CStr(tmpbuf), <<>>, TRUE, NoWas)
    /\ secondCtr' = CtrZero
    /\ nSamples' = 0
    /\ pc' = "loop"
    /\ UNCHANGED <<setTimeData, wr, timeValue, tempValue, humValue, configFile,
                   backupFile, saved, pending, excess, nTicks, nWrites, nResets, applied>>

\* the oscillator advances the clock by a second
Tick ==
    /\ pc # "boot"
    /\ nTicks < MaxTicks
    /\ nTicks' = nTicks + 1
    /\ clock' = TickTime(clock)
    /\ last' = Quiet
    /\ UNCHANGED <<pc, lastSecond, lastHr, secondCtr, updateRateSec, sensorIsDHT11,
                   tempIsF, setTimeData, wr, timeValue, tempValue, humValue,
                   configFile, backupFile, mounted, saved, pending, nSamples,
                   excess, nWrites, nResets, applied>>

\* CharacteristicCallBack::onWrite on the BLE task, the client having written s:
\* strncpy has copied its first k bytes
OnWriteBegin(s, k) ==
    /\ pc # "boot"
    /\ wr = NoWrite
    /\ nWrites < MaxWrites
    /\ nWrites' = nWrites + 1
    /\ timeValue' = s
    /\ setTimeData' = StrNCpyPartial(setTimeData, s, CopyMax, k)
    /\ wr' = [src |-> s, k |-> k]
    /\ last' = Quiet
    /\ UNCHANGED <<pc, clock, lastSecond, lastHr, secondCtr, updateRateSec,
                   sensorIsDHT11, tempIsF, tempValue, humValue, configFile,
                   backupFile, mounted, saved, pending, nSamples, excess, nTicks,
                   nResets, applied>>

\* an onWrite that also sets the clock itself
OnWriteEndSetsClock ==
    /\ wr # NoWrite
    /\ setTimeData' = [i \in 1..BufSize |->
                          IF i > wr.k THEN StrNCpy(setTimeData, wr.src, CopyMax)[i]
                          ELSE setTimeData[i]]
    /\ pending' = Append(pending, wr.src)
    /\ wr' = NoWrite
    /\ last' = Quiet
    /\ LET r == setRtcTime(Pad(Trunc(wr.src), BufSize), clock, lastSecond, lastHr)
       IN  /\ clock' = r.clock
           /\ lastSecond' = r.lastSecond
           /\ lastHr' = r.lastHr
    /\ UNCHANGED <<pc, secondCtr, updateRateSec, sensorIsDHT11, tempIsF, timeValue,
                   tempValue, humValue, configFile, backupFile, mounted, saved,
                   nSamples, excess, nTicks, nWrites, nResets, applied>>

\* strncpy copies the other bytes and onWrite returns
OnWriteEnd ==
    /\ wr # NoWrite
    /\ setTimeData' = [i \in 1..BufSize |->
                          IF i > wr.k THEN StrNCpy(setTimeData, wr.src, CopyMax)[i]
                          ELSE setTimeData[i]]
    /\ pending' = Append(pending, wr.src)
    /\ wr' = NoWrite
    /\ last' = Quiet
    /\ UNCHANGED <<pc, clock, lastSecond, lastHr, secondCtr, updateRateSec,
                   sensorIsDHT11, tempIsF, timeValue, tempValue, humValue,
                   configFile, backupFile, mounted, saved, nSamples, excess,
                   nTicks, nWrites, nResets, applied>>

\* loop(): sec == lastSecond, nothing to do for this second
LoopNoEdge ==
    /\ pc = "loop"
    /\ RtcGetSecond(clock) = lastSecond
    /\ pc' = "hour"
    /\ last' = Quiet
    /\ UNCHANGED <<clock, lastSecond, lastHr, secondCtr, updateRateSec, sensorIsDHT11,
                   tempIsF, setTimeData, wr, timeValue, tempValue, humValue,
                   configFile, backupFile, mounted, saved, pending, nSamples,
                   excess, nTicks, nWrites, nResets, applied>>

\* a second-edge that refreshes the time characteristic and then consumes the string
LoopEdgePendingRefreshes ==
    /\ pc = "loop"
    /\ RtcGetSecond(clock) # lastSecond
    /\ lastSecond' = RtcGetSecond(clock)
    /\ secondCtr' = CtrInc(secondCtr)
    /\ StrLen(setTimeData) > 0
    /\ timeValue' = RtcGetTime(clock)
    /\ pc' = "apply"
    /\ last' = Quiet
    /\ UNCHANGED <<clock, lastHr, updateRateSec, sensorIsDHT11, tempIsF, setTimeData,
                   wr, tempValue, humValue, configFile, backupFile, mounted, saved,
                   pending, nSamples, excess, nTicks, nWrites, nResets, applied>>

\* loop(): a second-edge, and setTimeData holds a string
LoopEdgePending ==
    /\ pc = "loop"
    /\ RtcGetSecond(clock) # lastSecond
    /\ lastSecond' = RtcGetSecond(clock)
    /\ secondCtr' = CtrInc(secondCtr)
    /\ StrLen(setTimeData) > 0
    /\ pc' = "apply"
    /\ last' = Quiet
    /\ UNCHANGED <<clock, lastHr, updateRateSec, sensorIsDHT11, tempIsF, setTimeData,
                   wr, timeValue, tempValue, humValue, configFile, backupFile,
                   mounted, saved, pending, nSamples, excess, nTicks, nWrites,
                   nResets, applied>>

\* loop(): a second-edge with setTimeData empty: the time characteristic is refreshed
LoopEdgeRefresh ==
    /\ pc = "loop"
    /\ RtcGetSecond(clock) # lastSecond
    /\ lastSecond' = RtcGetSecond(clock)
    /\ secondCtr' = CtrInc(secondCtr)
    /\ StrLen(setTimeData) = 0
    /\ timeValue' = RtcGetTime(clock)
    /\ pc' = "sample"
    /\ last' = Quiet
    /\ UNCHANGED <<clock, lastHr, updateRateSec, sensorIsDHT11, tempIsF, setTimeData,
                   wr, tempValue, humValue, configFile, backupFile, mounted, saved,
                   pending, nSamples, excess, nTicks, nWrites, nResets, applied>>

\* loop(): setRtcTime(setTimeData)
LoopApply ==
    /\ pc = "apply"
    /\ LET r == setRtcTime(setTimeData, clock, lastSecond, lastHr)
       IN  /\ clock' = r.clock
           /\ lastSecond' = r.lastSecond
           /\ lastHr' = r.lastHr
           /\ excess' = IF r.ok THEN excess - 1 ELSE excess
           /\ applied' = IF r.ok THEN nTicks ELSE -1
           /\ last' = Ev("apply", r.ok, CStr(setTimeData), pending, wr = NoWrite,
                        [clock |-> clock, lastSecond |-> lastSecond, lastHr |-> lastHr])
    /\ pending' = <<>>
    /\ pc' = "clear"
    /\ UNCHANGED <<secondCtr, updateRateSec, sensorIsDHT11, tempIsF, setTimeData, wr,
                   timeValue, tempValue, humValue, configFile, backupFile, mounted,
                   saved, nSamples, nTicks, nWrites, nResets>>

\* a loop() that leaves the string in the buffer after setRtcTime
LoopClearKeepsString ==
    /\ pc = "clear"
    /\ pc' = "backup"
    /\ last' = Quiet
    /\ UNCHANGED <<clock, lastSecond, lastHr, secondCtr, updateRateSec, sensorIsDHT11,
                   tempIsF, setTimeData, wr, timeValue, tempValue, humValue,
                   configFile, backupFile, mounted, saved, pending, nSamples,
                   excess, nTicks, nWrites, nResets, applied>>

\* loop(): setTimeData[0] = '\0'
LoopClear ==
    /\ pc = "clear"
    /\ setTimeData' = [setTimeData EXCEPT ![1] = NUL]
    /\ pc' = "backup"
    /\ last' = Quiet
    /\ UNCHANGED <<clock, lastSecond, lastHr, secondCtr, updateRateSec, sensorIsDHT11,
                   tempIsF, wr, timeValue, tempValue, humValue, configFile,
                   backupFile, mounted, saved, pending, nSamples, excess, nTicks,
                   nWrites, nResets, applied>>

\* a backup whose failure to open the file stops the main task
LoopBackupHaltsOnFailure(opened) ==
    /\ pc = "backup"
    /\ backupFile' = backupTimeValue(clock, backupFile, opened /\ mounted)
    /\ saved' = IF opened /\ mounted THEN clock ELSE saved
    /\ excess' = excess + 1
    /\ pc' = IF opened /\ mounted THEN "sample" ELSE "halted"
    /\ last' = Ev("backup", opened /\ mounted, <<>>, <<>>, TRUE, NoWas)
    /\ UNCHANGED <<clock, lastSecond, lastHr, secondCtr, updateRateSec, sensorIsDHT11,
                   tempIsF, setTimeData, wr, timeValue, tempValue, humValue,
                   configFile, mounted, pending, nSamples, nTicks, nWrites, nResets, applied>>

\* loop(): the backupTimeValue() that follows the clear; opened is whether
\* SPIFFS.open gives a file
LoopBackup(opened) ==
    /\ pc = "backup"
    /\ backupFile' = backupTimeValue(clock, backupFile, opened /\ mounted)
    /\ saved' = IF opened /\ mounted THEN clock ELSE saved
    /\ excess' = excess + 1
    /\ pc' = "sample"
    /\ last' = Ev("backup", opened /\ mounted, <<>>, <<>>, TRUE, NoWas)
    /\ UNCHANGED <<clock, lastSecond, lastHr, secondCtr, updateRateSec, sensorIsDHT11,
                   tempIsF, setTimeData, wr, timeValue, tempValue, humValue,
                   configFile, mounted, pending, nSamples, nTicks, nWrites, nResets, applied>>

\* a sample at every second-edge, whatever secondCtr is
LoopSampleEveryEdge(r) ==
    /\ pc = "sample"
    /\ tempValue' = FormatTemp(r)
    /\ humValue' = FormatHum(r)
    /\ nSamples' = nSamples + 1
    /\ pc' = "hour"
    /\ last' = Ev("sample", r # NaN, <<>>, <<>>, TRUE, NoWas)
    /\ UNCHANGED <<clock, lastSecond, lastHr, secondCtr, updateRateSec, sensorIsDHT11,
                   tempIsF, setTimeData, wr, timeValue, configFile, backupFile,
                   mounted, saved, pending, excess, nTicks, nWrites, nResets, applied>>

\* loop(): secondCtr is a multiple of updateRateSec; the sensor is read (r) and
\* both characteristics are set
LoopSample(r) ==
    /\ pc = "sample"
    /\ CtrMod(secondCtr, updateRateSec) = 0
    /\ tempValue' = FormatTemp(r)
    /\ humValue' = FormatHum(r)
    /\ nSamples' = nSamples + 1
    /\ pc' = "hour"
    /\ last' = Ev("sample", r # NaN, <<>>, <<>>, TRUE, NoWas)
    /\ UNCHANGED <<clock, lastSecond, lastHr, secondCtr, updateRateSec, sensorIsDHT11,
                   tempIsF, setTimeData, wr, timeValue, configFile, backupFile,
                   mounted, saved, pending, excess, nTicks, nWrites, nResets, applied>>

\* loop(): secondCtr is no multiple of updateRateSec
LoopNoSample ==
    /\ pc = "sample"
    /\ CtrMod(secondCtr, updateRateSec) # 0
    /\ pc' = "hour"
    /\ last' = Quiet
    /\ UNCHANGED <<clock, lastSecond, lastHr, secondCtr, updateRateSec, sensorIsDHT11,
                   tempIsF, setTimeData, wr, timeValue, tempValue, humValue,
                   configFile, backupFile, mounted, saved, pending, nSamples,
                   excess, nTicks, nWrites, nResets, applied>>

\* loop(): hr != lastHr, the hourly backup
LoopHourEdge(opened) ==
    /\ pc = "hour"
    /\ RtcGetHour(clock) # lastHr
    /\ lastHr' = RtcGetHour(clock)
    /\ backupFile' = backupTimeValue(clock, backupFile, opened /\ mounted)
    /\ saved' = IF opened /\ mounted THEN clock ELSE saved
    /\ pc' = "loop"
    /\ last' = Ev("hour", opened /\ mounted, <<>>, <<>>, TRUE, NoWas)
    /\ applied' = -1
    /\ UNCHANGED <<clock, lastSecond, secondCtr, updateRateSec, sensorIsDHT11, tempIsF,
                   setTimeData, wr, timeValue, tempValue, humValue, configFile,
                   mounted, pending, nSamples, excess, nTicks, nWrites, nResets>>

\* loop(): hr == lastHr, loop() returns
LoopNoHour ==
    /\ pc = "hour"
    /\ RtcGetHour(clock) = lastHr
    /\ pc' = "loop"
    /\ last' = Quiet
    /\ applied' = -1
    /\ UNCHANGED <<clock, lastSecond, lastHr, secondCtr, updateRateSec, sensorIsDHT11,
                   tempIsF, setTimeData, wr, timeValue, tempValue, humValue,
                   configFile, backupFile, mounted, saved, pending, nSamples,
                   excess, nTicks, nWrites, nResets>>

\* the device restarts: the globals have their initialisers again, SPIFFS keeps its files
Reset ==
    /\ pc # "boot"
    /\ nResets < MaxResets
    /\ nResets' = nResets + 1
    /\ pc' = "boot"
    /\ clock' = PowerOnTime
    /\ lastSecond' = -1
    /\ lastHr' = -1
    /\ secondCtr' = CtrZero
    /\ updateRateSec' = StaticRate
    /\ sensorIsDHT11' = TRUE
    /\ tempIsF' = TRUE
    /\ setTimeData' = ZeroBuf
    /\ timeValue' = <<>>
    /\ tempValue' = <<>>
    /\ humValue' = <<>>
    /\ wr' = NoWrite
    /\ mounted' = FALSE
    /\ pending' = <<>>
    /\ nSamples' = 0
    /\ excess' = 0
    /\ last' = Quiet
    /\ applied' = -1
    /\ UNCHANGED <<configFile, backupFile, saved, nTicks, nWrites>>

\* the steps of loop()
Loop ==
    \/ LoopNoEdge
    \/ LoopEdgePending
    \/ LoopEdgeRefresh
    \/ LoopApply
    \/ LoopClear
    \/ \E opened \in BOOLEAN : LoopBackup(opened)
    \/ \E r \in Readings \cup {NaN} : LoopSample(r)
    \/ LoopNoSample
    \/ \E opened \in BOOLEAN : LoopHourEdge(opened)
    \/ LoopNoHour

\* one boot of a device whose /config.ini asks for a sample every 2 seconds,
\* with a client that writes any of WriteValues
Init == InitOf({ConfigRate2}, {NoFile})

Next ==
    \/ \E m \in BOOLEAN : Setup(m)
    \/ Tick
    \/ \E s \in WriteValues, k \in SplitAt : OnWriteBegin(s, k)
    \/ OnWriteEnd
    \/ Loop

Spec == Init /\ [][Next]_vars

\* every /config.ini and /backup.dat, with a client that writes one time
InitBoot == InitOf(ConfigFiles, {NoFile}) \/ InitOf({ConfigRate2}, InitialBackups)

NextBoot ==
    \/ \E m \in BOOLEAN : Setup(m)
    \/ Tick
    \/ \E k \in SplitAt : OnWriteBegin(WriteHourEnd, k)
    \/ OnWriteEnd
    \/ Loop

SpecBoot == InitBoot /\ [][NextBoot]_vars

\* a device that restarts, with a client that writes one time
NextRestart ==
    \/ \E m \in BOOLEAN : Setup(m)
    \/ Tick
    \/ \E k \in SplitAt : OnWriteBegin(WriteHourEnd, k)
    \/ OnWriteEnd
    \/ Loop
    \/ Reset

SpecRestart == Init /\ [][NextRestart]_vars

\* the scheduling of the main task: the Arduino core calls setup() once and then
\* loop() forever, so a step of the main task that can be taken is taken; the
\* client and the oscillator owe nothing
MainTaskRuns == WF_vars(\E m \in BOOLEAN : Setup(m)) /\ WF_vars(Loop)

\* a client that writes a malformed and a well formed string, on a device whose
\* SPIFFS may not mount and whose backup file may not open
NextFault ==
    \/ \E m \in BOOLEAN : Setup(m)
    \/ Tick
    \/ \E s \in {WriteLong, WriteHourEnd}, k \in SplitAt : OnWriteBegin(s, k)
    \/ OnWriteEnd
    \/ Loop

SpecFault == Init /\ [][NextFault]_vars /\ MainTaskRuns

\* the largest value of secondCtr: the next secondCtr++ gives 0
CtrMax == [hi |-> Half - 1, lo |-> Half - 1]

\* the last multiple of p that secondCtr reaches before it wraps (p is at most
\* 60, so it differs from CtrMax in the low half only)
LastMultiple(p) == [hi |-> Half - 1, lo |-> (Half - 1) - CtrMod(CtrMax, p)]

\* the periods whose last multiple lies so close to CtrMax that the clock can
\* tick past the wrap
WrapRates == {p \in 2..60 : CtrMod(CtrMax, p) + 2 <= MaxTicks}

\* a device that has run until secondCtr is the last multiple of updateRateSec
\* before the wrap: loop() has just sampled and returned.  nSamples counts the
\* samples from here on.
InitWrap ==
    /\ pc = "loop"
    /\ clock = EpochTime
    /\ lastSecond = RtcGetSecond(EpochTime)
    /\ lastHr = RtcGetHour(EpochTime)
    /\ updateRateSec \in WrapRates
    /\ secondCtr = LastMultiple(updateRateSec)
    /\ sensorIsDHT11 = TRUE
    /\ tempIsF = TRUE
    /\ setTimeData = ZeroBuf
    /\ wr = NoWrite
    /\ timeValue = RtcGetTime(EpochTime)
    /\ tempValue = FormatTemp([t |-> 725, h |-> 40])
    /\ humValue = FormatHum([t |-> 725, h |-> 40])
    /\ configFile = NoFile
    /\ backupFile = NoFile
    /\ mounted = TRUE
    /\ saved = NoTime
    /\ pending = <<>>
    /\ nSamples = 0
    /\ excess = 0
    /\ last = Quiet
    /\ nTicks = 0
    /\ nWrites = 0
    /\ nResets = 0
    /\ applied = -1

NextWrap ==
    \/ Tick
    \/ \E k \in SplitAt : OnWriteBegin(WriteHourEnd, k)
    \/ OnWriteEnd
    \/ Loop

SpecWrap == InitWrap /\ [][NextWrap]_vars

\* contents of /backup.dat and /config.ini that try the key lookup: CR LF and LF
\* line ends, a key on a later line, a key twice, a last line that the end of
\* the file ends, an empty file
BackupNoLineEnd == KeyTIME \o TimeChars(2024, 2, 23, 12, 34, 56)
BackupCrLf == KeyTIME \o TimeChars(2024, 2, 23, 12, 34, 56) \o <<CR, LF>>
BackupSecondLine == Line(KeyUNITS, <<"C">>) \o Line(KeyTIME, TimeChars(2024, 2, 23, 12, 34, 56))
BackupTwice ==
    Line(KeyTIME, TimeChars(2024, 2, 23, 12, 34, 56))
    \o Line(KeyTIME, TimeChars(2025, 3, 4, 1, 2, 3))
BackupOtherKey == Line(KeyUNITS, <<"C">>)

BackupLateHour == Line(KeyTIME, TimeChars(2024, 12, 31, 23, 59, 59))

KeyBackups == {NoFile, <<>>, BackupNoLineEnd, BackupCrLf, BackupSecondLine, BackupTwice,
               BackupOtherKey, BackupLateHour} \cup InitialBackups

ConfigNoLineEnd == Line(KeySENSOR, <<"D", "H", "T", "2", "2">>) \o KeyUPDATERATE \o <<"5">>

KeyConfigs == {NoFile, ConfigRate3, ConfigNoRate, ConfigNoLineEnd}

InitKeys == InitOf(KeyConfigs, {NoFile}) \/ InitOf({ConfigRate2}, KeyBackups)

SpecKeys == InitKeys /\ [][NextBoot]_vars

----------------------------------------------------------------------------
(* setRtcTime on many strings: loop() is about to pass setTimeData to it *)

BaseChars == TimeChars(2024, 2, 23, 12, 34, 56)

\* the places of the digits of YYYY/MM/DD HH:MM:SS
DigitPlaces == {1, 2, 3, 4, 6, 7, 9, 10, 12, 13, 15, 16, 18, 19}

InRangeInputs ==
    {TimeChars(y, mo, d, h, mi, s) :
        y \in {2024, 2100}, mo \in {1, 2, 4, 12}, d \in {1, 28, 29, 30, 31},
        h \in {0, 12, 13, 23}, mi \in {0, 59}, s \in {0, 59}}

OutOfRangeInputs ==
    {TimeChars(y, 2, 23, 12, 34, 56) : y \in {0, 1999, 2023, 2101, 9999}}
    \cup {TimeChars(2024, mo, 23, 12, 34, 56) : mo \in {0, 13, 99}}
    \cup {TimeChars(2024, 2, d, 12, 34, 56) : d \in {0, 32, 99}}
    \cup {TimeChars(2024, 2, 23, h, 34, 56) : h \in {24, 99}}
    \cup {TimeChars(2024, 2, 23, 12, mi, 56) : mi \in {60, 99}}
    \cup {TimeChars(2024, 2, 23, 12, 34, s) : s \in {60, 99}}

NonDigitInputs ==
    {[BaseChars EXCEPT ![i] = c] : i \in DigitPlaces, c \in {"X", " ", "-", ":"}}

WrongDelimiterInputs ==
    {[BaseChars EXCEPT ![i] = c] : i \in {5, 8, 11, 14, 17}, c \in {"-", ".", "T", "0"}}

WrongLengthInputs ==
    {SubSeq(BaseChars, 1, n) : n \in 1..18} \cup {BaseChars \o Xs(n) : n \in {1, 6, 12}}

ParseInputs ==
    InRangeInputs \cup OutOfRangeInputs \cup NonDigitInputs \cup WrongDelimiterInputs
    \cup WrongLengthInputs

\* the state of loop() at its call of setRtcTime(setTimeData), one second after a
\* setup() that found no backup, the client having written s
InitParse ==
    /\ pc = "apply"
    /\ clock = TickTime(EpochTime)
    /\ lastSecond = 1
    /\ lastHr = RtcGetHour(EpochTime)
    /\ secondCtr = CtrInc(CtrZero)
    /\ updateRateSec = 2
    /\ sensorIsDHT11 = TRUE
    /\ tempIsF = TRUE
    /\ \E s \in ParseInputs :
        /\ setTimeData = StrNCpy(ZeroBuf, s, CopyMax)
        /\ timeValue = s
        /\ pending = <<s>>
    /\ wr = NoWrite
    /\ tempValue = <<>>
    /\ humValue = <<>>
    /\ configFile = ConfigRate2
    /\ backupFile = NoFile
    /\ mounted = TRUE
    /\ saved = NoTime
    /\ nSamples = 0
    /\ excess = 0
    /\ last = Quiet
    /\ nTicks = 1
    /\ nWrites = 1
    /\ nResets = 0
    /\ applied = -1

NextParse == LoopApply

SpecParse == InitParse /\ [][NextParse]_vars

----------------------------------------------------------------------------
(* Properties of the firmware *)

Num2(s, i) == 10 * DigitVal(s[i]) + DigitVal(s[i + 1])

Num4(s, i) == 100 * Num2(s, i) + Num2(s, i + 2)

\* exactly 19 characters, digits in the fields, the delimiters at index 4, 7, 13, 16
WellFormed(s) ==
    /\ Len(s) = 19
    /\ \A i \in DigitPlaces : IsDigit(s[i])
    /\ s[5] = "/" /\ s[8] = "/" /\ s[14] = ":" /\ s[17] = ":"

\* every field of a well formed string in its declared range
FieldsInRange(s) ==
    /\ Num4(s, 1) \in 2024..2100
    /\ Num2(s, 6) \in 1..12
    /\ Num2(s, 9) \in 1..31
    /\ Num2(s, 12) \in 0..23
    /\ Num2(s, 15) \in 0..59
    /\ Num2(s, 18) \in 0..59

\* the time a well formed string names
NamedTime(s) == Time(Num4(s, 1), Num2(s, 6), Num2(s, 9), Num2(s, 12), Num2(s, 15), Num2(s, 18))

\* loop() is between two iterations, or past the time string handling of one
PastTimeHandling == pc \in {"sample", "hour", "loop"}

----------------------------------------------------------------------------
(* C1..C10 *)

\* C1: backupTimeValue() runs once for each detected hour-edge, once right after
\* each accepted time string, and at no other time: once the time string handling
\* of an iteration is over, the calls of backupTimeValue() that followed neither
\* an hour-edge nor an accepted string number zero.  In particular a rejected
\* string brings no checkpoint.
C1_CheckpointOnlyOnHourEdgeOrAccepted == PastTimeHandling => excess = 0

\* C2: setRtcTime rejects every string that is not the 19 character pattern with
\* all fields in range, and leaves the clock, lastSecond and lastHr as they were.
C2_MalformedIsRejected ==
    (last.op = "apply" /\ ~(WellFormed(last.arg) /\ FieldsInRange(last.arg)))
        => /\ ~last.ok
           /\ clock = last.was.clock
           /\ lastSecond = last.was.lastSecond
           /\ lastHr = last.was.lastHr

\* C3: of two different strings written, both onWrite calls having returned
\* before loop() passes the buffer to setRtcTime, only the second is passed
\* (its first 31 characters) and applied.
C3_LastWriteWins ==
    (/\ last.op = "apply"
     /\ last.idle
     /\ Len(last.pend) >= 2
     /\ last.pend[Len(last.pend) - 1] # last.pend[Len(last.pend)])
        => /\ last.arg = Trunc(last.pend[Len(last.pend)])
           /\ last.ok => ( /\ WellFormed(SubSeq(last.pend[Len(last.pend)], 1, TimeStrLen))
                           /\ clock.hr = Num2(last.pend[Len(last.pend)], 12)
                           /\ clock.mn = Num2(last.pend[Len(last.pend)], 15)
                           /\ clock.se = Num2(last.pend[Len(last.pend)], 18) )

C3_Witness ==
    /\ last.op = "apply"
    /\ last.idle
    /\ last.ok
    /\ Len(last.pend) = 2
    /\ last.pend[1] = WriteFeb30
    /\ last.pend[2] = WriteHourEnd
    /\ clock = NamedTime(WriteHourEnd)

\* C4: the sensor is read on exactly the second-edges whose incremented secondCtr
\* is a multiple of updateRateSec: the samples taken since setup() number the
\* multiples of updateRateSec among the second-edges handled so far, and no
\* temperature or humidity is exposed before the first of them.
C4_SampleCadence ==
    pc # "boot" =>
        /\ nSamples = (IF pc \in {"apply", "clear", "backup", "sample"}
                       THEN (CtrVal(secondCtr) - 1) \div updateRateSec
                       ELSE CtrVal(secondCtr) \div updateRateSec)
        /\ (nSamples = 0) <=> (tempValue = <<>>)
        /\ (nSamples = 0) <=> (humValue = <<>>)

\* a sample taken at the second-edge that applied the written 12:59:59 (the
\* clock has not ticked since)
C4_Witness ==
    /\ last.op = "sample"
    /\ nSamples >= 1
    /\ clock = NamedTime(WriteHourEnd)
    /\ CtrMod(secondCtr, updateRateSec) = 0

\* C5: onWrite only stages the string: a step of onWrite leaves the clock,
\* lastSecond, lastHr, secondCtr and the settings alone, and the clock changes
\* only by a tick, by setup(), or by loop() passing the buffer to setRtcTime.
C5_WriteOnlyStages ==
    [][ /\ (nWrites' # nWrites \/ Len(pending') > Len(pending))
            => UNCHANGED <<clock, lastSecond, lastHr, secondCtr, updateRateSec,
                           sensorIsDHT11, tempIsF>>
        /\ clock' # clock
            => (nTicks' # nTicks \/ pc = "boot" \/ (pc = "apply" /\ pc' = "clear")) ]_vars

\* a written time is staged and the clock is still that of setup()
C5_Witness ==
    /\ wr = NoWrite
    /\ pending = <<WriteHourEnd>>
    /\ CStr(setTimeData) = WriteHourEnd
    /\ clock = EpochTime
    /\ pc = "loop"

\* C6: for every well formed string with all fields in range setRtcTime succeeds
\* and the clock then reads exactly the fields of the string, also when the day
\* is past the end of the month.
C6_AcceptedReadsBack ==
    (last.op = "apply" /\ WellFormed(last.arg) /\ FieldsInRange(last.arg))
        => /\ last.ok
           /\ clock = NamedTime(last.arg)

\* C7: a failed sensor read leaves the exposed temperature and humidity at the
\* last values read successfully.
C7_FailedReadKeepsValues ==
    [][ (pc = "sample" /\ last'.op = "sample" /\ ~last'.ok
         /\ tempValue \notin {<<>>, NanStr})
            => (tempValue' = tempValue /\ humValue' = humValue) ]_vars

\* C8: with /config.ini readable and no UPDATERATE line in it, the period after
\* setup() is the default, 10.
C8_MissingRateGivesDefault ==
    (pc # "boot" /\ mounted /\ configFile = ConfigNoRate) => updateRateSec = DefaultRate

\* C9: from the end of setup() on updateRateSec lies in 2..60, whatever
\* /config.ini holds and whether or not SPIFFS mounts, and no step of loop() or
\* of onWrite changes it.
C9_RateInRange ==
    [][ /\ pc' # "boot" => updateRateSec' \in 2..60
        /\ (pc # "boot" /\ pc' # "boot") => updateRateSec' = updateRateSec ]_vars

\* UPDATERATE=0 became 2, and the cadence test has divided by it
C9_Witness ==
    /\ mounted
    /\ configFile = ConfigRate0
    /\ updateRateSec = 2
    /\ nSamples >= 1
    /\ nWrites >= 1

\* C10: a setup() that mounts SPIFFS after backupTimeValue() wrote the record of
\* clock value V (year 2024..2100) sets the clock to V, the value of the most
\* recent record written.
C10_RestoreRoundTrip ==
    (last.op = "setup" /\ mounted /\ saved # NoTime /\ saved.yr \in 2024..2100)
        => (last.ok /\ clock = saved)

\* restored: the hour-edge record of 13:00:00, written over that of 12:59:59
C10_Witness ==
    /\ last.op = "setup"
    /\ mounted
    /\ nResets = 1
    /\ saved = Time(2024, 2, 23, 13, 0, 0)
    /\ clock = saved

----------------------------------------------------------------------------
(* C11..C19 *)

\* C11: no fault stops the scheduler.  Whatever failed (a backup that could not
\* open its file, a SPIFFS that did not mount, a sensor read that gave NAN, a
\* rejected time string), every iteration of loop() ends and a later iteration
\* has taken every second-edge and hour-edge the clock has shown: again and
\* again loop() is at its start with lastSecond and lastHr those of the clock.
\* And a backupTimeValue() that could not open its file leaves the clock, the
\* staged string, secondCtr and lastSecond as they were.
C11_FaultsDoNotStopTheLoop ==
    /\ []<>(pc = "loop" /\ lastSecond = RtcGetSecond(clock) /\ lastHr = RtcGetHour(clock))
    /\ [][ (last'.op \in {"backup", "hour"} /\ ~last'.ok)
             => UNCHANGED <<clock, setTimeData, secondCtr, lastSecond, backupFile, saved>> ]_vars

\* the hour-edge of 13:00:00 is taken after a rejected string, a sensor read of
\* NAN and backups that all failed
C11_Witness ==
    /\ last.op = "hour"
    /\ ~last.ok
    /\ saved = NoTime
    /\ backupFile = NoFile
    /\ excess = 1
    /\ tempValue = NanStr
    /\ clock = Time(2024, 2, 23, 13, 0, 0)
    /\ timeValue = RtcGetTime(clock)

\* C12: a written string is lost only to a later write.  Once loop() is past its
\* time string handling and no onWrite is running, a write that completed after
\* the last setRtcTime(setTimeData) call is still staged: the buffer holds the
\* first 31 characters of the last such write, so the next second-edge passes
\* it to setRtcTime.  This covers the write that lands between the setRtcTime
\* call and setTimeData[0] = '\0'.
C12_WriteNotLost ==
    (PastTimeHandling /\ wr = NoWrite /\ pending # <<>>)
        => CStr(setTimeData) = Trunc(pending[Len(pending)])

\* C13: a second-edge does one of two things.  With setTimeData not empty loop()
\* consumes it (setRtcTime, then the clear) and does not set the time
\* characteristic in that iteration; with setTimeData empty it sets the time
\* characteristic to the formatted clock.  A second-edge is never passed over,
\* the clear leaves the buffer empty, and with no write since the last
\* consumption the buffer is empty outside the consumption itself.
C13_ConsumeOrRefresh ==
    /\ [][ /\ (pc = "loop" /\ pc' = "apply")
                => (StrLen(setTimeData) > 0 /\ timeValue' = timeValue)
           /\ (pc = "loop" /\ pc' = "sample")
                => (StrLen(setTimeData) = 0 /\ timeValue' = RtcGetTime(clock))
           /\ (pc = "loop" /\ pc' = "hour") => RtcGetSecond(clock) = lastSecond
           /\ (pc \in {"apply", "clear", "backup"} /\ nWrites' = nWrites)
                => timeValue' = timeValue
           /\ (pc = "apply" /\ pc' # pc) => (pc' = "clear" /\ last'.arg = CStr(setTimeData))
           /\ (pc = "clear" /\ pc' # pc) => (pc' = "backup" /\ StrLen(setTimeData') = 0) ]_vars
    /\ []((pc \notin {"apply", "clear"} /\ pending = <<>> /\ wr = NoWrite)
            => StrLen(setTimeData) = 0)

\* the written 12:59:59 has been consumed at the second second-edge: the buffer
\* is empty and the time characteristic still holds what the client wrote
C13_Witness ==
    /\ pc = "sample"
    /\ last.op = "backup"
    /\ CtrVal(secondCtr) = 2
    /\ nWrites = 1
    /\ pending = <<>>
    /\ StrLen(setTimeData) = 0
    /\ timeValue = WriteHourEnd
    /\ clock = NamedTime(WriteHourEnd)

\* C14: a time string that is accepted sets lastSecond and lastHr to the second
\* and hour of the new time, and the iteration of loop() that applied it, the
\* clock not having ticked since, takes no hour-edge: the checkpoint after the
\* clear is the only one of that iteration, whatever the hour of the new time.
\* And loop() takes a second-edge only when the clock's second is not lastSecond.
C14_NoEdgeAfterApply ==
    [][ /\ (last'.op = "apply" /\ last'.ok)
            => (lastSecond' = RtcGetSecond(clock') /\ lastHr' = clock'.hr)
        /\ (pc = "hour" /\ applied = nTicks /\ pc' = "loop")
            => (lastHr' = lastHr /\ backupFile' = backupFile /\ saved' = saved)
        /\ (pc = "loop" /\ pc' \in {"apply", "sample"})
            => RtcGetSecond(clock) # lastSecond ]_vars

\* the second-edges loop() has taken since secondCtr was LastMultiple(p)
EdgesSince(p) ==
    IF secondCtr.hi = Half - 1
    THEN secondCtr.lo - LastMultiple(p).lo
    ELSE (Half - LastMultiple(p).lo) + secondCtr.lo

\* C15: the wrap of secondCtr from its largest value to 0 does not disturb the
\* cadence.  From a sample taken before the wrap on, for every period the
\* samples are exactly that many second-edges apart: their number is the number
\* of whole periods among the second-edges taken since, also across the wrap.
C15_CadenceAcrossWrap ==
    nSamples = (IF pc \in {"apply", "clear", "backup", "sample"}
                THEN (EdgesSince(updateRateSec) - 1) \div updateRateSec
                ELSE EdgesSince(updateRateSec) \div updateRateSec)

\* C16: a rejected time string is dropped and not tried again.  setRtcTime
\* leaves the clock as it was when it rejects; after the clear, with no write
\* since, the buffer is empty; and every call setRtcTime(setTimeData) of loop()
\* consumes a write made since the call before (one that has returned, or one
\* that is running), never a string consumed already.
C16_RejectedIsNotRetried ==
    /\ (last.op = "apply" /\ ~last.ok)
            => (clock = last.was.clock /\ lastHr = last.was.lastHr)
    /\ last.op = "apply" => (last.pend # <<>> \/ ~last.idle)
    /\ (PastTimeHandling /\ pending = <<>> /\ wr = NoWrite) => StrLen(setTimeData) = 0

\* the one string written was rejected a second ago; this second-edge found the
\* buffer empty (its other bytes still hold the string) and refreshed the time
C16_Witness ==
    /\ pc = "sample"
    /\ nWrites = 1
    /\ excess = 1
    /\ wr = NoWrite
    /\ pending = <<>>
    /\ StrLen(setTimeData) = 0
    /\ SubSeq(setTimeData, 2, CopyMax) = SubSeq(WriteLong, 2, CopyMax)
    /\ CtrVal(secondCtr) = 2
    /\ clock = TickTime(TickTime(EpochTime))
    /\ timeValue = RtcGetTime(clock)

\* the value of a key as the lookup is described: the lines of f are what its
\* line-feeds separate, carriage-returns dropped, the text after the last
\* line-feed being a line too; the value is the text after the key on the first
\* line that begins with the key, and empty when there is no such line or no file
RECURSIVE FirstValue(_, _, _, _)
FirstValue(f, pos, acc, key) ==
    IF pos > Len(f) \/ f[pos] = LF
    THEN IF HasPrefix(acc, key) THEN SubSeq(acc, Len(key) + 1, Len(acc))
         ELSE IF pos > Len(f) THEN <<>>
         ELSE FirstValue(f, pos + 1, <<>>, key)
    ELSE IF f[pos] = CR THEN FirstValue(f, pos + 1, acc, key)
    ELSE FirstValue(f, pos + 1, Append(acc, f[pos]), key)

KeyValue(f, key) == IF f = NoFile THEN <<>> ELSE FirstValue(f, 1, <<>>, key)

\* C17: readKey gives the text after the key on the first line that begins with
\* the key, and the empty string when the file is missing or has no such line,
\* a last line without a line-feed being a line like the others: the string
\* setup() passes to setRtcTime is that value of TIME= in /backup.dat, and the
\* period and the sensor type are those of the values of UPDATERATE= and
\* SENSOR= in /config.ini.
C17_ReadKeyFirstMatchingLine ==
    (last.op = "setup" /\ mounted)
        => /\ last.arg = KeyValue(backupFile, KeyTIME)
           /\ updateRateSec = ClampRate(atoi(KeyValue(configFile, KeyUPDATERATE)))
           /\ sensorIsDHT11 = (KeyValue(configFile, KeySENSOR) = DHT11Name)

\* the TIME record setup() finds in /backup.dat, and whether it is a valid time
StoredRecord == readKey(backupFile, KeyTIME, CopyMax)

ValidRecord ==
    /\ WellFormed(StoredRecord)
    /\ FieldsInRange(StoredRecord)
    /\ Num2(StoredRecord, 9) <= DaysIn(Num2(StoredRecord, 6), Num4(StoredRecord, 1))

Staged(s) == Pad(Trunc(s), BufSize)

StagedCleared(s) == [Staged(s) EXCEPT ![1] = NUL]

\* C19: setTimeData always holds a NUL terminated string of at most 31
\* characters, whatever was written (also more than 31 characters) and however
\* the writes and loop() interleave.  An onWrite that returns leaves in the
\* buffer the first 31 characters of its value and NUL in every other byte (the
\* first byte is NUL instead if loop()'s clear ran during the copy): nothing of
\* an earlier write stays, and while no onWrite runs the buffer is that of one
\* written value, or that with its first byte cleared.
C19_BufferHoldsOneString ==
    /\ [](/\ Len(setTimeData) = BufSize
          /\ setTimeData[BufSize] = NUL
          /\ StrLen(setTimeData) <= CopyMax
          /\ (wr = NoWrite /\ pc # "boot" /\ nWrites > 0)
                => \E s \in WriteValues : setTimeData \in {Staged(s), StagedCleared(s)})
    /\ [][ (wr # NoWrite /\ wr' = NoWrite /\ pc' # "boot")
             => setTimeData' \in {Staged(wr.src), StagedCleared(wr.src)} ]_vars

\* the 19 characters written after a write of 33: the rest of the buffer is NUL
C19_Witness ==
    /\ wr = NoWrite
    /\ pending = <<WriteLong, WriteHourEnd>>
    /\ setTimeData = Staged(WriteHourEnd)
    /\ CStr(setTimeData) = WriteHourEnd

====
